---- MODULE Spec2Model ----
(***************************************************************************)
(* Model of ml-trainer/train.py: the __main__ block, check_gpu and         *)
(* list_training_images.  File names are sequences of one-character        *)
(* strings, so that str.lower() and str.endswith() are computed character  *)
(* by character.  Printed lines are records [kind, n, name].               *)
(***************************************************************************)
EXTENDS Integers, Sequences, FiniteSets, TLC

\* ------------------------------------------------------------------ bounds
MaxHead == 2      \* entries of the directory drawn freely from NamePool
MaxFill == 13     \* further well-formed image files in the directory
MaxGpus == 2      \* physical GPUs the runtime may report
MaxRuns == 2      \* invocations of list_training_images made by a client

\* ------------------------------------------------------- program constants
DisplayLimit == 10

valid_extensions ==
  << <<".", "p", "n", "g">>, <<".", "j", "p", "g">>,
     <<".", "j", "p", "e", "g">>, <<".", "g", "i", "f">>,
     <<".", "b", "m", "p">>, <<".", "t", "i", "f", "f">> >>

\* -------------------------------------------------------------- file names
PhotoJPG    == <<"p", "h", "o", "t", "o", ".", "J", "P", "G">>
NotesTxt    == <<"n", "o", "t", "e", "s", ".", "t", "x", "t">>
ArchiveBak  == <<"a", "r", "c", "h", "i", "v", "e", ".", "j", "p", "e", "g",
                 ".", "b", "a", "k">>
MixedTiff   == <<"a", ".", "T", "i", "f", "f">>
BarePng     == <<".", "p", "n", "g">>
NoDotPng    == <<"x", "p", "n", "g">>

NamePool == {PhotoJPG, NotesTxt, ArchiveBak, MixedTiff, BarePng, NoDotPng}

\* Files of the pool that hold text: Image.open never decodes them.  The
\* other files of the pool hold an image, which may be damaged.
TextFiles == {NotesTxt, ArchiveBak, NoDotPng}

UpperChars ==
  <<"A", "B", "C", "D", "E", "F", "G", "H", "I", "J", "K", "L", "M",
    "N", "O", "P", "Q", "R", "S", "T", "U", "V", "W", "X", "Y", "Z">>
LowerChars ==
  <<"a", "b", "c", "d", "e", "f", "g", "h", "i", "j", "k", "l", "m",
    "n", "o", "p", "q", "r", "s", "t", "u", "v", "w", "x", "y", "z">>

\* The k-th filler file: "f" + k-th letter + k-th extension (cyclically).
FillName(k) ==
  <<"f", LowerChars[k]>> \o valid_extensions[((k - 1) % Len(valid_extensions)) + 1]

FillPrefix(k) == [i \in 1..k |-> FillName(i)]

\* Sequences over S without repetition, of length at most n.
RECURSIVE InjSeqs(_, _)
InjSeqs(S, n) ==
  IF n = 0 THEN {<<>>}
  ELSE LET shorter == InjSeqs(S, n - 1)
       IN  shorter \cup
           UNION {{Append(s, x) : x \in S \ {s[i] : i \in DOMAIN s}} :
                  s \in {t \in shorter : Len(t) = n - 1}}

Range(s) == {s[i] : i \in DOMAIN s}

\* ------------------------------------------------------------ str methods
\* variant: lower() is left out
LowerCharIdentity(c) == c

LowerChar(c) ==
  IF \E i \in DOMAIN UpperChars : UpperChars[i] = c
  THEN LowerChars[CHOOSE i \in DOMAIN UpperChars : UpperChars[i] = c]
  ELSE c

Lower(s) == [i \in DOMAIN s |-> LowerChar(s[i])]

EndsWith(s, suffix) ==
  /\ Len(s) >= Len(suffix)
  /\ SubSeq(s, Len(s) - Len(suffix) + 1, Len(s)) = suffix

EndsWithAny(s, suffixes) ==
  \E k \in DOMAIN suffixes : EndsWith(s, suffixes[k])

\* line 39: item.lower().endswith(valid_extensions)
IsImageName(item) == EndsWithAny(Lower(item), valid_extensions)

\* ------------------------------------------------------------ output lines
Line(kind, n, name) == [kind |-> kind, n |-> n, name |-> name]

Plain(kind) == Line(kind, 0, <<>>)

Min(a, b) == IF a < b THEN a ELSE b

\* variant: the slice is one short
Head9(files) == SubSeq(files, 1, Min(Len(files), DisplayLimit - 1))

\* image_files[:10]
Head10(files) == SubSeq(files, 1, Min(Len(files), DisplayLimit))

\* variant: the else is missing, the last print always runs
SummaryLinesNoElse(files) ==
  (IF files # <<>>
   THEN <<Line("Found", Len(files), <<>>)>>
        \o [i \in 1..Len(Head10(files)) |-> Line("File", 0, Head10(files)[i])]
        \o (IF Len(files) > DisplayLimit
            THEN <<Line("More", Len(files) - DisplayLimit, <<>>)>>
            ELSE <<>>)
   ELSE <<>>)
  \o <<Plain("NoImages")>>

\* lines 50-57
SummaryLines(files) ==
  IF files # <<>>
  THEN <<Line("Found", Len(files), <<>>)>>
       \o [i \in 1..Len(Head10(files)) |-> Line("File", 0, Head10(files)[i])]
       \o (IF Len(files) > DisplayLimit
           THEN <<Line("More", Len(files) - DisplayLimit, <<>>)>>
           ELSE <<>>)
  ELSE <<Plain("NoImages")>>

\* ------------------------------------------------------------------- state
VARIABLES
  dirExists,     \* os.path.exists(TRAINING_IMAGES_DIR)
  dirReadable,   \* os.listdir(TRAINING_IMAGES_DIR) succeeds
  dir,           \* the entries of the directory, in listing order
  corrupt,       \* entries that Image.open cannot open or decode
  gpuEnumFails,  \* tf.config.list_physical_devices raises
  gpuCount,      \* number of physical GPUs it returns otherwise
  tfFault,       \* [kind, at]: which call of the try block raises, and what
  pc,            \* position in the script
  ret,           \* where list_training_images returns to
  out,           \* lines printed so far
  uncaught,      \* the exception that ended the script, or "none"
  gi,            \* check_gpu: index of the GPU being configured
  image_files,   \* list_training_images: the found list
  items,         \* list_training_images: the result of os.listdir
  idx,           \* list_training_images: position of the for loop in items
  handles,       \* image handles currently open
  mark,          \* length of out when list_training_images was last entered
  calls,         \* filesystem and image-library calls of this invocation
  results        \* per finished invocation: found list, lines, calls

vars == <<dirExists, dirReadable, dir, corrupt, gpuEnumFails, gpuCount,
          tfFault, pc, ret, out, uncaught, gi, image_files, items, idx,
          handles, mark, calls, results>>

envVars == <<dirExists, dirReadable, dir, corrupt, gpuEnumFails, gpuCount,
             tfFault>>

gpuVars == <<gi, uncaught>>

scanVars == <<image_files, items, idx, handles>>

Call(op, name) == [op |-> op, name |-> name]

NoFault == [kind |-> "none", at |-> 0]

\* The directories considered: a missing one, or an existing one holding
\* `fill` filler images followed by up to MaxHead names of NamePool.
DirEnvs(fill) ==
  {[exists |-> FALSE, readable |-> TRUE, entries |-> <<>>, corrupt |-> {}]}
  \cup
  UNION {{[exists |-> TRUE, readable |-> r,
           entries |-> FillPrefix(k) \o head,
           corrupt |-> (Range(head) \cap TextFiles) \cup c] :
            r \in BOOLEAN, k \in 0..fill,
            c \in SUBSET (Range(head) \ TextFiles)} :
         head \in InjSeqs(NamePool, MaxHead)}

\* The accelerator runtimes considered: enumeration raises, or returns g
\* devices and at most one call of the try block (set_memory_growth for
\* device 1..g, list_logical_devices as call g+1) raises.
GpuEnvs ==
  {[fails |-> TRUE, count |-> 0, fault |-> NoFault]}
  \cup
  {[fails |-> FALSE, count |-> g, fault |-> NoFault] : g \in 0..MaxGpus}
  \cup
  UNION {{[fails |-> FALSE, count |-> g, fault |-> [kind |-> k, at |-> a]] :
            k \in {"RuntimeError", "Other"}, a \in 1..(g + 1)} :
         g \in 1..MaxGpus}

InitProgram(start) ==
  /\ pc = start
  /\ ret = start
  /\ out = <<>>
  /\ uncaught = "none"
  /\ gi = 0
  /\ image_files = <<>>
  /\ items = <<>>
  /\ idx = 0
  /\ handles = <<>>
  /\ mark = 0
  /\ calls = <<>>
  /\ results = <<>>

InitDir(fill) ==
  \E d \in DirEnvs(fill) :
    /\ dirExists = d.exists
    /\ dirReadable = d.readable
    /\ dir = d.entries
    /\ corrupt = d.corrupt

\* The script is started: python train.py
Init ==
  /\ InitDir(0)
  /\ \E g \in GpuEnvs :
       /\ gpuEnumFails = g.fails
       /\ gpuCount = g.count
       /\ tfFault = g.fault
  /\ InitProgram("main_start")

\* ------------------------------------------------------------------ __main__
\* lines 63-64
MainStart ==
  /\ pc = "main_start"
  /\ out' = out \o <<Plain("Starting"), Plain("TFVersion")>>
  /\ pc' = "gpu_enum"
  /\ UNCHANGED <<envVars, ret, gpuVars, scanVars, mark, calls, results>>

\* line 13, raising: nothing encloses the call, the script ends
GpuEnumRaise ==
  /\ pc = "gpu_enum"
  /\ gpuEnumFails
  /\ uncaught' = "list_physical_devices"
  /\ pc' = "aborted"
  /\ UNCHANGED <<envVars, ret, out, gi, scanVars, mark, calls, results>>

\* lines 13-14, 26-27
GpuEnumNone ==
  /\ pc = "gpu_enum"
  /\ ~gpuEnumFails
  /\ gpuCount = 0
  /\ out' = Append(out, Plain("NoGpus"))
  /\ pc' = "call_lti"
  /\ UNCHANGED <<envVars, ret, gpuVars, scanVars, mark, calls, results>>

\* lines 13-15
GpuEnumSome ==
  /\ pc = "gpu_enum"
  /\ ~gpuEnumFails
  /\ gpuCount > 0
  /\ gi' = 1
  /\ pc' = "gpu_try"
  /\ UNCHANGED <<envVars, ret, out, uncaught, scanVars, mark, calls, results>>

\* lines 17-18, one iteration
SetMemoryGrowth ==
  /\ pc = "gpu_try"
  /\ gi <= gpuCount
  /\ tfFault.at # gi
  /\ gi' = gi + 1
  /\ UNCHANGED <<envVars, pc, ret, out, uncaught, scanVars, mark, calls,
                 results>>

\* variant: the except clause is missing
TfRaiseRuntimeErrorUncaught ==
  /\ pc = "gpu_try"
  /\ tfFault.at = gi
  /\ tfFault.kind = "RuntimeError"
  /\ uncaught' = "set_memory_growth"
  /\ pc' = "aborted"
  /\ UNCHANGED <<envVars, ret, out, gi, scanVars, mark, calls, results>>

\* lines 18-19 raising RuntimeError, lines 23-25
TfRaiseRuntimeError ==
  /\ pc = "gpu_try"
  /\ tfFault.at = gi
  /\ tfFault.kind = "RuntimeError"
  /\ out' = Append(out, Plain("GrowthError"))
  /\ pc' = "call_lti"
  /\ UNCHANGED <<envVars, ret, gpuVars, scanVars, mark, calls, results>>

\* lines 18-19 raising anything else: `except RuntimeError` does not match
TfRaiseOther ==
  /\ pc = "gpu_try"
  /\ tfFault.at = gi
  /\ tfFault.kind = "Other"
  /\ uncaught' = "set_memory_growth"
  /\ pc' = "aborted"
  /\ UNCHANGED <<envVars, ret, out, gi, scanVars, mark, calls, results>>

\* lines 19-22; the number of logical devices printed is not modelled
GpuReport ==
  /\ pc = "gpu_try"
  /\ gi = gpuCount + 1
  /\ tfFault.at # gi
  /\ out' = Append(out, Line("GpuSummary", gpuCount, <<>>))
            \o [i \in 1..gpuCount |-> Line("GpuName", i - 1, <<>>)]
  /\ pc' = "call_lti"
  /\ UNCHANGED <<envVars, ret, gpuVars, scanVars, mark, calls, results>>

\* line 67
CallListTrainingImages ==
  /\ pc = "call_lti"
  /\ ret' = "main_rest"
  /\ mark' = Len(out)
  /\ calls' = <<>>
  /\ pc' = "lti_enter"
  /\ UNCHANGED <<envVars, out, gpuVars, scanVars, results>>

\* lines 69-81
MainFinish ==
  /\ pc = "main_rest"
  /\ out' = out \o <<Plain("Placeholder"), Plain("Placeholder"),
                     Plain("Placeholder"), Plain("Finished")>>
  /\ pc' = "exit"
  /\ UNCHANGED <<envVars, ret, gpuVars, scanVars, mark, calls, results>>

\* ------------------------------------------------------ list_training_images
\* The lines printed since list_training_images was entered.
Segment(o) == SubSeq(o, mark + 1, Len(o))

Result(found, o, c) == [found |-> found, lines |-> Segment(o), calls |-> c]

\* variant: the return of line 33 is missing
LtiDirMissingNoReturn ==
  /\ pc = "lti_enter"
  /\ ~dirExists
  /\ out' = out \o <<Plain("Checking"), Plain("DirMissing")>>
  /\ calls' = Append(calls, Call("exists", <<>>))
  /\ image_files' = <<>>
  /\ pc' = "lti_listdir"
  /\ UNCHANGED <<envVars, ret, gpuVars, items, idx, handles, mark, results>>

\* lines 30-33: the directory is missing
LtiDirMissing ==
  /\ pc = "lti_enter"
  /\ ~dirExists
  /\ out' = out \o <<Plain("Checking"), Plain("DirMissing")>>
  /\ calls' = Append(calls, Call("exists", <<>>))
  /\ results' = Append(results, Result(<<>>, out', calls'))
  /\ pc' = ret
  /\ UNCHANGED <<envVars, ret, gpuVars, scanVars, mark>>

\* variant: image_files is a module-level list, not reset at line 35
LtiDirPresentKeepsList ==
  /\ pc = "lti_enter"
  /\ dirExists
  /\ out' = Append(out, Plain("Checking"))
  /\ calls' = Append(calls, Call("exists", <<>>))
  /\ pc' = "lti_listdir"
  /\ UNCHANGED <<envVars, ret, gpuVars, scanVars, mark, results>>

\* lines 30-31, 35-37: the directory exists
LtiDirPresent ==
  /\ pc = "lti_enter"
  /\ dirExists
  /\ out' = Append(out, Plain("Checking"))
  /\ calls' = Append(calls, Call("exists", <<>>))
  /\ image_files' = <<>>
  /\ pc' = "lti_listdir"
  /\ UNCHANGED <<envVars, ret, gpuVars, items, idx, handles, mark, results>>

\* variant: the try encloses the for loop only, the summary follows it
ListdirRaiseThenSummary ==
  /\ pc = "lti_listdir"
  /\ ~dirReadable
  /\ calls' = Append(calls, Call("listdir", <<>>))
  /\ out' = Append(out, Plain("ListError")) \o SummaryLines(image_files)
  /\ pc' = "lti_return"
  /\ UNCHANGED <<envVars, ret, gpuVars, scanVars, mark, results>>

\* line 38, os.listdir raising; lines 58-59
ListdirRaise ==
  /\ pc = "lti_listdir"
  /\ ~dirReadable
  /\ calls' = Append(calls, Call("listdir", <<>>))
  /\ out' = Append(out, Plain("ListError"))
  /\ pc' = "lti_return"
  /\ UNCHANGED <<envVars, ret, gpuVars, scanVars, mark, results>>

\* line 38, os.listdir returning
ListdirOk ==
  /\ pc = "lti_listdir"
  /\ dirReadable
  /\ calls' = Append(calls, Call("listdir", <<>>))
  /\ items' = dir
  /\ idx' = 1
  /\ pc' = "lti_loop"
  /\ UNCHANGED <<envVars, ret, out, gpuVars, image_files, handles, mark,
                 results>>

\* variant: the open is outside the if, every entry is opened
SkipEntryOpens ==
  /\ pc = "lti_loop"
  /\ idx <= Len(items)
  /\ ~IsImageName(items[idx])
  /\ calls' = Append(calls, Call("open", items[idx]))
  /\ out' = IF items[idx] \in corrupt
            THEN Append(out, Line("Warning", 0, items[idx]))
            ELSE out
  /\ idx' = idx + 1
  /\ UNCHANGED <<envVars, pc, ret, gpuVars, image_files, items, handles,
                 mark, results>>

\* lines 38-39: the entry is not image-like
SkipEntry ==
  /\ pc = "lti_loop"
  /\ idx <= Len(items)
  /\ ~IsImageName(items[idx])
  /\ idx' = idx + 1
  /\ UNCHANGED <<envVars, pc, ret, out, gpuVars, image_files, items, handles,
                 mark, calls, results>>

\* lines 38-40: the entry is image-like
TakeEntry ==
  /\ pc = "lti_loop"
  /\ idx <= Len(items)
  /\ IsImageName(items[idx])
  /\ image_files' = Append(image_files, items[idx])
  /\ pc' = "lti_open"
  /\ UNCHANGED <<envVars, ret, out, gpuVars, items, idx, handles, mark, calls,
                 results>>

\* lines 42-44: Image.open returns a handle, the with block is entered
OpenImage ==
  /\ pc = "lti_open"
  /\ items[idx] \notin corrupt
  /\ calls' = Append(calls, Call("open", items[idx]))
  /\ handles' = Append(handles, items[idx])
  /\ pc' = "lti_with"
  /\ UNCHANGED <<envVars, ret, out, gpuVars, image_files, items, idx, mark,
                 results>>

\* variant: Image.open without with, the handle is never closed
CloseImageLeak ==
  /\ pc = "lti_with"
  /\ idx' = idx + 1
  /\ pc' = "lti_loop"
  /\ UNCHANGED <<envVars, ret, out, gpuVars, image_files, items, handles,
                 mark, calls, results>>

\* lines 44-46: the with block is left, the handle is released
CloseImage ==
  /\ pc = "lti_with"
  /\ handles' = SubSeq(handles, 1, Len(handles) - 1)
  /\ idx' = idx + 1
  /\ pc' = "lti_loop"
  /\ UNCHANGED <<envVars, ret, out, gpuVars, image_files, items, mark, calls,
                 results>>

\* variant: the append of line 40 follows the open, a failed entry is lost
OpenImageFailsDropsEntry ==
  /\ pc = "lti_open"
  /\ items[idx] \in corrupt
  /\ calls' = Append(calls, Call("open", items[idx]))
  /\ out' = Append(out, Line("Warning", 0, items[idx]))
  /\ image_files' = SubSeq(image_files, 1, Len(image_files) - 1)
  /\ idx' = idx + 1
  /\ pc' = "lti_loop"
  /\ UNCHANGED <<envVars, ret, gpuVars, items, handles, mark, results>>

\* lines 42-44 raising, lines 47-48
OpenImageFails ==
  /\ pc = "lti_open"
  /\ items[idx] \in corrupt
  /\ calls' = Append(calls, Call("open", items[idx]))
  /\ out' = Append(out, Line("Warning", 0, items[idx]))
  /\ idx' = idx + 1
  /\ pc' = "lti_loop"
  /\ UNCHANGED <<envVars, ret, gpuVars, image_files, items, handles, mark,
                 results>>

\* lines 50-57, after the for loop has ended
PrintSummary ==
  /\ pc = "lti_loop"
  /\ idx > Len(items)
  /\ out' = out \o SummaryLines(image_files)
  /\ pc' = "lti_return"
  /\ UNCHANGED <<envVars, ret, gpuVars, scanVars, mark, calls, results>>

\* line 59: the function returns None to its caller
LtiReturn ==
  /\ pc = "lti_return"
  /\ results' = Append(results, Result(image_files, out, calls))
  /\ pc' = ret
  /\ UNCHANGED <<envVars, ret, out, gpuVars, scanVars, mark, calls>>

ListTrainingImages ==
  \/ LtiDirMissing
  \/ LtiDirPresent
  \/ ListdirRaise
  \/ ListdirOk
  \/ SkipEntry
  \/ TakeEntry
  \/ OpenImage
  \/ CloseImage
  \/ OpenImageFails
  \/ PrintSummary
  \/ LtiReturn

CheckGpu ==
  \/ GpuEnumRaise
  \/ GpuEnumNone
  \/ GpuEnumSome
  \/ SetMemoryGrowth
  \/ TfRaiseRuntimeError
  \/ TfRaiseOther
  \/ GpuReport

Next ==
  \/ MainStart
  \/ CheckGpu
  \/ CallListTrainingImages
  \/ ListTrainingImages
  \/ MainFinish

Spec == Init /\ [][Next]_vars

\* The interpreter runs the script to its end: a step that is possible is
\* eventually taken.
LiveSpec == Spec /\ WF_vars(Next)

\* ------------------------------------------- a client of list_training_images
\* A client that imports the module and calls list_training_images up to
\* MaxRuns times on a directory nobody changes.
ScanInit ==
  /\ InitDir(MaxFill)
  /\ gpuEnumFails = FALSE
  /\ gpuCount = 0
  /\ tfFault = NoFault
  /\ InitProgram("client")

ClientCall ==
  /\ pc = "client"
  /\ Len(results) < MaxRuns
  /\ ret' = "client"
  /\ mark' = Len(out)
  /\ calls' = <<>>
  /\ pc' = "lti_enter"
  /\ UNCHANGED <<envVars, out, gpuVars, scanVars, results>>

ScanNext ==
  \/ ClientCall
  \/ ListTrainingImages

ScanSpec == ScanInit /\ [][ScanNext]_vars

\* ===================================================================== claims
\* The suffixes as the specification lists them.
ClaimedSuffixes ==
  { <<".", "p", "n", "g">>, <<".", "j", "p", "g">>, <<".", "j", "p", "e", "g">>,
    <<".", "g", "i", "f">>, <<".", "b", "m", "p">>, <<".", "t", "i", "f", "f">> }

\* c is the lower-case character l, or its upper-case form.
SameLetter(c, l) ==
  \/ c = l
  \/ \E i \in DOMAIN LowerChars : LowerChars[i] = l /\ UpperChars[i] = c

\* The name ends, letter case aside, with one of the six suffixes.
ClaimedImageLike(name) ==
  \E suf \in ClaimedSuffixes :
    /\ Len(name) >= Len(suf)
    /\ \A j \in 1..Len(suf) : SameLetter(name[Len(name) - Len(suf) + j], suf[j])

ClaimedImages == SelectSeq(dir, ClaimedImageLike)

IsCorrupt(name) == name \in corrupt

KindCount(lines, kind) == Cardinality({i \in DOMAIN lines : lines[i].kind = kind})

OfKind(lines, kind) ==
  LET Test(l) == l.kind = kind IN SelectSeq(lines, Test)

OpenedNames(cs) ==
  LET IsOpen(c) == c.op = "open"
      opens == SelectSeq(cs, IsOpen)
  IN  [i \in DOMAIN opens |-> opens[i].name]

Listed == dirExists /\ dirReadable

\* list_training_images has returned, the caller has not moved yet.
Returned == pc = ret /\ results # <<>>

Last(s) == s[Len(s)]

\* C1: when a scan of a listed directory returns, an entry is in the found
\* list exactly when its name, letter case aside, ends with one of the six
\* suffixes, whatever the entry holds; photo.JPG is found, notes.txt and
\* archive.jpeg.bak are not.
C1_Classification ==
  (Returned /\ Listed) =>
    LET found == Range(Last(results).found)
    IN  /\ \A i \in DOMAIN dir : (dir[i] \in found) <=> ClaimedImageLike(dir[i])
        /\ PhotoJPG \in Range(dir) => PhotoJPG \in found
        /\ NotesTxt \notin found
        /\ ArchiveBak \notin found

C1_Witness ==
  /\ Returned
  /\ PhotoJPG \in corrupt
  /\ PhotoJPG \in Range(Last(results).found)
  /\ ArchiveBak \in Range(dir)

\* C2: when the directory does not exist, the scan prints the header and the
\* directory error and nothing else, lists nothing, opens nothing, finds
\* nothing, raises nothing, and the script goes on to its remaining steps.
C2_MissingDirectory ==
  ~dirExists =>
    /\ \A i \in DOMAIN calls : calls[i].op = "exists"
    /\ \A i \in DOMAIN out : out[i].kind \notin {"Found", "File", "More", "NoImages"}
    /\ handles = <<>>
    /\ results # <<>> =>
         /\ results[1].lines = <<Plain("Checking"), Plain("DirMissing")>>
         /\ results[1].found = <<>>
         /\ results[1].calls = <<Call("exists", <<>>)>>
         /\ pc \in {"main_rest", "exit"}
    /\ pc = "exit" => Last(out) = Plain("Finished")

C2_Witness ==
  /\ ~dirExists
  /\ pc = "exit"
  /\ Plain("DirMissing") \in Range(out)

\* C3: when a scan of a listed directory returns, each image-like entry that
\* failed to open has a warning naming it and is in the found list, an open
\* was attempted for every image-like entry, and the count printed is the
\* number of image-like entries.
C3_OpenFailureKept ==
  (Returned /\ Listed) =>
    LET res == Last(results)
        imgs == ClaimedImages
        opened == Range(res.calls)
        lines == Range(res.lines)
        found == Range(res.found)
    IN  /\ \A i \in DOMAIN imgs :
             /\ Call("open", imgs[i]) \in opened
             /\ imgs[i] \in corrupt =>
                  /\ Line("Warning", 0, imgs[i]) \in lines
                  /\ imgs[i] \in found
        /\ imgs # <<>> => Line("Found", Len(imgs), <<>>) \in lines

C3_Witness ==
  /\ Returned
  /\ Listed
  /\ \E i, j \in DOMAIN dir :
       /\ i < j
       /\ ClaimedImageLike(dir[i]) /\ dir[i] \in corrupt
       /\ ClaimedImageLike(dir[j]) /\ dir[j] \notin corrupt
       /\ Line("Warning", 0, dir[i]) \in Range(Last(results).lines)

\* Every failure that occurred has its message in the output.
ErrorsReported ==
  /\ tfFault.kind = "RuntimeError" => Plain("GrowthError") \in Range(out)
  /\ ~dirExists => Plain("DirMissing") \in Range(out)
  /\ (dirExists /\ ~dirReadable) => Plain("ListError") \in Range(out)
  /\ Listed =>
       \A i \in DOMAIN dir :
         (ClaimedImageLike(dir[i]) /\ dir[i] \in corrupt)
           => Line("Warning", 0, dir[i]) \in Range(out)

Finished == pc = "exit" /\ Last(out) = Plain("Finished")

C5_SummaryPrefix ==
  (Returned /\ Listed) =>
    LET lines == Last(results).lines
        imgs == ClaimedImages
        N == Len(imgs)
        shown == IF N < 10 THEN N ELSE 10
        files == OfKind(lines, "File")
        mores == OfKind(lines, "More")
    IN  N >= 1 =>
          /\ OfKind(lines, "Found") = <<Line("Found", N, <<>>)>>
          /\ Len(files) = shown
          /\ \A k \in DOMAIN files : files[k].name = imgs[k]
          /\ mores = (IF N > 10 THEN <<Line("More", N - 10, <<>>)>> ELSE <<>>)
          /\ LET p == CHOOSE i \in DOMAIN lines : lines[i].kind = "Found"
             IN  /\ \A k \in 1..shown : lines[p + k].kind = "File"
                 /\ Len(lines) = p + shown + Len(mores)
          /\ N = 15 => (Len(files) = 10 /\ mores[1].n = 5)
          /\ N = 10 => (Len(files) = 10 /\ mores = <<>>)

C5_Witness ==
  /\ Returned
  /\ Len(Last(results).found) = 15
  /\ Line("More", 5, <<>>) \in Range(Last(results).lines)

\* C6: when a scan of a listed directory returns, it has printed exactly one
\* of the two summary outcomes: the no-image line exactly when the listing
\* holds no image-like entry, the found line otherwise.
C6_OneSummary ==
  (Returned /\ Listed) =>
    LET lines == Last(results).lines
    IN  /\ KindCount(lines, "Found") + KindCount(lines, "NoImages") = 1
        /\ KindCount(lines, "NoImages") = 1 <=> ClaimedImages = <<>>

C6_Witness ==
  /\ Returned
  /\ Listed
  /\ dir # <<>>
  /\ Plain("NoImages") \in Range(Last(results).lines)

\* C7: when the directory exists and os.listdir fails, the scan prints the
\* header and the listing error and nothing else, opens no file, finds
\* nothing and returns to its caller.
C7_ListingFailed ==
  (dirExists /\ ~dirReadable) =>
    /\ \A i \in DOMAIN calls : calls[i].op # "open"
    /\ \A i \in DOMAIN out :
         out[i].kind \notin {"Found", "File", "More", "NoImages", "Warning"}
    /\ Returned =>
         /\ Last(results).lines = <<Plain("Checking"), Plain("ListError")>>
         /\ Last(results).found = <<>>

C7_Witness ==
  /\ Returned
  /\ dirExists
  /\ ~dirReadable
  /\ \E i \in DOMAIN dir : ClaimedImageLike(dir[i])

\* C8: at most one image handle is open at any time, none is open except
\* inside the with block, so none when the next entry is examined, after a
\* failed open, or when the function has returned.
C8_ScopedHandles ==
  /\ Len(handles) <= 1
  /\ pc # "lti_with" => handles = <<>>

C8_Witness ==
  /\ pc = "client"
  /\ handles = <<>>
  /\ \E i, j \in DOMAIN calls :
       /\ calls[i].op = "open" /\ calls[i].name \in corrupt
       /\ calls[j].op = "open" /\ calls[j].name \notin corrupt

\* C9: two scans of the same unchanged directory find the same set of names
\* and the same number of names, and the second starts with no handle open.
C9_Idempotent ==
  /\ Len(results) >= 2 =>
       \A r \in 2..Len(results) :
         /\ Range(results[r].found) = Range(results[1].found)
         /\ Len(results[r].found) = Len(results[1].found)
         /\ OfKind(results[r].lines, "Found") = OfKind(results[1].lines, "Found")
  /\ (pc = "lti_enter" /\ results # <<>>) => handles = <<>>

C9_Witness ==
  /\ Len(results) = 2
  /\ results[2].found # <<>>
  /\ \E i \in DOMAIN results[1].lines : results[1].lines[i].kind = "Warning"

\* C10: when a scan of a listed directory returns, the opens it attempted are
\* exactly the image-like entries, once each and in listing order, and its
\* output is the header, then the warnings of the entries that failed to
\* open, in listing order, then the summary.
C10_OpenOrder ==
  (Returned /\ Listed) =>
    LET res == Last(results)
        imgs == ClaimedImages
        bad == SelectSeq(imgs, IsCorrupt)
        lines == res.lines
    IN  /\ OpenedNames(res.calls) = imgs
        /\ Len(lines) >= Len(bad) + 2
        /\ lines[1] = Plain("Checking")
        /\ \A k \in DOMAIN bad : lines[1 + k] = Line("Warning", 0, bad[k])
        /\ lines[Len(bad) + 2].kind \in {"Found", "NoImages"}
        /\ \A k \in (Len(bad) + 2)..Len(lines) : lines[k].kind # "Warning"

C10_Witness ==
  /\ Returned
  /\ Listed
  /\ \E i, j, k \in DOMAIN dir :
       /\ i < j /\ j < k
       /\ ClaimedImageLike(dir[i]) /\ dir[i] \notin corrupt
       /\ ~ClaimedImageLike(dir[j])
       /\ ClaimedImageLike(dir[k]) /\ dir[k] \in corrupt
       /\ Last(results).lines[2] = Line("Warning", 0, dir[k])
       /\ Last(results).lines[3].kind = "Found"
====
